---- MODULE Spec2Model ----
(***************************************************************************)
(* A model of netCDF_utilities/ncgen.py: the generation run ncgen(), the   *)
(* group builder _add_to_group(), the attribute coercer _add_attribute(),  *)
(* _create_var() and the pack/unpack transform _pack_unpack().             *)
(*                                                                         *)
(* The netCDF4 storage engine is outside the repository.  It is modelled   *)
(* by the primitives the code calls (createDimension, createVariable,      *)
(* setncattr, createGroup, variable writes) with the behaviour of the      *)
(* netCDF4-python library: a name already in use is an error, a size of    *)
(* None or 0 makes an unlimited dimension, a write along an unlimited      *)
(* dimension grows it.                                                     *)
(***************************************************************************)
EXTENDS Integers, Sequences, FiniteSets, TLC

VARIABLES
    file,            \* the target path: "absent", "original", "dataset"
    existed,         \* the target path existed when ncgen was called
    clobber,         \* argument clobber
    nc_format,       \* argument nc_format
    nc_config,       \* argument nc_config: [src, dict]
    return_instance, \* argument return_instance
    data,            \* argument data
    pc,              \* position of the run
    err,             \* the exception that ended the run, or NoError
    nc_config_dict,  \* the loaded configuration
    nc,              \* the dataset: group path -> [attrs, dims, vars]
    handle,          \* mode of the open dataset handle: "closed", "w", "a"
    group,           \* _add_to_group: path of the group being built
    gdata,           \* _add_to_group: argument data
    gconfig,         \* _add_to_group: argument config
    gi,              \* index of the next group of ncgen's loop
    di,              \* index of the next dimension of the dimension loop
    vi,              \* index of the next variable of the variable loop
    warns,           \* warnings emitted so far
    dimcalls,        \* createDimension calls that succeeded so far
    result,          \* what ncgen returned: "pending", "None", "handle"
    appends,         \* writes done through the returned handle
    pk               \* the pack/unpack specification's state

vars == <<file, existed, clobber, nc_format, nc_config, return_instance, data, pc, err,
          nc_config_dict, nc, handle, group, gdata, gconfig, gi, di, vi,
          warns, dimcalls, result, appends, pk>>

(***************************************************************************)
(* Bounds of the model.                                                    *)
(***************************************************************************)
MaxSize == 2      \* dimension sizes, scalar data values and array extents
MaxAppend == 2    \* writes through the returned handle
MaxPack == 4      \* magnitude of the values given to _pack_unpack
MaxScale == 3     \* magnitude of scale_factor
MaxOffset == 2    \* magnitude of add_offset

(***************************************************************************)
(* Module constants of ncgen.py.                                           *)
(***************************************************************************)
_NC_FMT == {"NETCDF4", "NETCDF4_CLASSIC", "NETCDF3_CLASSIC",
            "NETCDF3_64BIT_OFFSET", "NETCDF3_64BIT_DATA"}

_STANDARD_GLOBAL_ATTR ==
    {"title", "institution", "source", "history", "references", "comments",
     "Conventions"}

_ACDD_GLOBAL_ATTR ==
    {"summary", "id", "naming_authority", "source", "processing_level",
     "acknowledgment", "license", "standard_name_vocabulary", "date_created",
     "creator_name", "creator_email", "creator_url", "project",
     "publisher_name", "publisher_email", "publisher_url",
     "geospatial_bounds", "geospatial_bounds_crs",
     "geospatial_bounds_vertical_crs", "geospatial_lat_min",
     "geospatial_lat_max", "geospatial_lon_min", "geospatial_lon_max",
     "geospatial_vertical_min", "geospatial_vertical_max",
     "geospatial_vertical_positive", "time_coverage_start",
     "time_coverage_end", "time_coverage_duration",
     "time_coverage_resolution", "creator_type", "creator_institution",
     "publisher_type", "publisher_institution", "program",
     "contributor_name", "contributor_role", "geospatial_lat_units",
     "geospatial_lat_resolution", "geospatial_lon_units",
     "geospatial_lon_resolution", "geospatial_vertical_units",
     "geospatial_vertical_resolution", "date_modified", "date_issued",
     "date_metadata_modified", "product_version", "keywords_vocabulary",
     "platform", "platform_vocabulary", "instrument",
     "instrument_vocabulary", "cdm_data_type", "metadata_link", "keywords",
     "keyword_vocabulary", "contributor_url", "contributor_type",
     "contributor_institution", "contributor_email"}

_NC4_OPTIONS ==
    {"zlib", "complevel", "shuffle", "least_significant_digit", "fill_value",
     "compression", "szip_coding", "szip_pixels_per_block", "blosc_shuffle",
     "fletcher32", "contiguous", "chunksizes", "endian",
     "significant_digits", "quantize_mode", "chunk_cache"}

\* a slip: the storage options left out of the list
_NOT_ATTRS_Structural == {"size", "dtype", "dat", "dim", "var"}

_NOT_ATTRS == {"size", "dtype", "dat", "dim", "var"} \cup _NC4_OPTIONS

_PACK_ATTRS ==
    {"add_offset", "scale_factor", "least_significant_digit", "actual_range"}

_CHAR_TYPE == "S1"
_STR_TYPE == "U"
_STR_TYPES == {"str", _CHAR_TYPE, _STR_TYPE}
_AttrUnpackDtype == "float32"

(***************************************************************************)
(* Values.  A Python value is a tagged record: a scalar number, an array   *)
(* (its shape, its elements and their dtype), a text (the sequence of its  *)
(* characters), a tuple of names or None.  "py" is the dtype of a value    *)
(* not cast yet.                                                           *)
(***************************************************************************)
None == [k |-> "None"]
Scalar(n) == [k |-> "scalar", n |-> n, dtype |-> "py"]
Array(shape, vals) ==
    [k |-> "array", shape |-> shape, vals |-> vals, dtype |-> "py"]
Text(s) == [k |-> "text", s |-> s]
\* a list of texts: an array whose elements are strings
TextArray(shape, vals) ==
    [k |-> "array", shape |-> shape, vals |-> vals, dtype |-> _STR_TYPE]
\* a Python bool is an int: True is 1
Bool(b) == [k |-> "scalar", n |-> IF b THEN 1 ELSE 0, dtype |-> "py"]
Tuple(s) == [k |-> "tuple", v |-> s]

\* isinstance(v, _SCALAR_TYPES), isinstance(v, _ARRAY_TYPES)
IsScalar(v) == v.k = "scalar"
IsArray(v) == v.k = "array"

RECURSIVE Product(_)
Product(s) == IF s = <<>> THEN 1 ELSE Head(s) * Product(Tail(s))

\* np.ma.array(v).size
ArraySize(v) == Product(v.shape)

Max(a, b) == IF a >= b THEN a ELSE b

NoError == [type |-> "none"]
Error(type, line, about) == [type |-> type, line |-> line, about |-> about]

Root == <<>>
EmptyGroup == [attrs |-> <<>>, dims |-> <<>>, vars |-> <<>>]

\* f with key k set to v (a dict assignment)
Put(f, k, v) == (k :> v) @@ f

(***************************************************************************)
(* The storage engine's primitives (netCDF4-python), on a group record.    *)
(***************************************************************************)
\* Dataset.createDimension(dimname, size): size None or 0 is unlimited
IsUnlimitedSize(size) == size = None \/ size.n = 0

createDimension(g, dimname, size) ==
    [g EXCEPT !.dims = Put(g.dims, dimname,
        [size |-> size,
         unlimited |-> IsUnlimitedSize(size),
         len |-> IF IsUnlimitedSize(size) THEN 0 ELSE size.n])]

\* the engine refuses a second dimension of the same name in a group
DimNameInUse(g, dimname) == dimname \in DOMAIN g.dims

\* Dataset.createVariable(varname, datatype, dimensions, **options)
createVariable(g, varname, datatype, dimensions, options) ==
    [g EXCEPT !.vars = Put(g.vars, varname,
        [dtype |-> datatype, dimensions |-> dimensions, options |-> options,
         attrs |-> <<>>, dat |-> None])]

\* the engine refuses a name in use and a dimension the group does not have
CanCreateVariable(g, varname, dimensions) ==
    /\ varname \notin DOMAIN g.vars
    /\ \A i \in 1..Len(dimensions) : dimensions[i] \in DOMAIN g.dims

\* obj.setncattr(name, value) on the variable varname of g
SetVarAttr(g, varname, name, value) ==
    [g EXCEPT !.vars[varname].attrs = Put(@, name, value)]

\* group.setncattr(name, value)
SetGroupAttr(g, name, value) == [g EXCEPT !.attrs = Put(@, name, value)]

\* the extent a payload has along axis i of a variable
Extent(payload, i) == IF IsArray(payload) THEN payload.shape[i] ELSE 1

\* variables[varname][:] = payload is accepted: a scalar is broadcast, an
\* array has the variable's rank and, along each fixed dimension, its length
\* (or 1, which is broadcast)
CanWriteAll(g, varname, payload) ==
    LET dims == g.vars[varname].dimensions IN
    IsArray(payload) =>
        /\ Len(payload.shape) = Len(dims)
        /\ \A i \in 1..Len(dims) :
              \/ g.dims[dims[i]].unlimited
              \/ payload.shape[i] \in {g.dims[dims[i]].len, 1}

\* the dimensions of g after variables[varname][:] = payload: every
\* unlimited dimension of the variable grows to the payload's extent
RECURSIVE GrowDims(_, _, _, _)
GrowDims(gdims, dims, payload, i) ==
    IF i > Len(dims) \/ ~IsArray(payload) THEN gdims
    ELSE LET d == dims[i]
             grown == IF gdims[d].unlimited
                      THEN [gdims EXCEPT ![d].len = Max(@, payload.shape[i])]
                      ELSE gdims
         IN GrowDims(grown, dims, payload, i + 1)

WriteAll(g, varname, payload) ==
    [g EXCEPT !.vars[varname].dat = payload,
              !.dims = GrowDims(g.dims, g.vars[varname].dimensions, payload, 1)]

\* variables[varname][k] = value is accepted: index 0 of a scalar variable,
\* any index along an unlimited first dimension, an index below the length
\* of a fixed one
CanWriteIndex(g, varname, k) ==
    LET dims == g.vars[varname].dimensions IN
    IF dims = <<>> THEN k = 0
    ELSE g.dims[dims[1]].unlimited \/ k < g.dims[dims[1]].len

\* a slip: the unlimited dimension grows to k, not k+1
WriteIndex_Short(g, varname, k, value) ==
    LET dims == g.vars[varname].dimensions IN
    [g EXCEPT !.vars[varname].dat = value,
              !.dims = IF dims # <<>> /\ g.dims[dims[1]].unlimited
                       THEN [g.dims EXCEPT ![dims[1]].len = Max(@, k)]
                       ELSE g.dims]

\* variables[varname][k] = value: an unlimited first dimension grows to k+1
WriteIndex(g, varname, k, value) ==
    LET dims == g.vars[varname].dimensions IN
    [g EXCEPT !.vars[varname].dat = value,
              !.dims = IF dims # <<>> /\ g.dims[dims[1]].unlimited
                       THEN [g.dims EXCEPT ![dims[1]].len = Max(@, k + 1)]
                       ELSE g.dims]

(***************************************************************************)
(* _pack_unpack, on integers.                                              *)
(***************************************************************************)
Abs(x) == IF x < 0 THEN -x ELSE x

\* np.rint(n / d): the nearest integer, a tie to the even one
RintPos(n, d) ==
    LET q == n \div d
        r == n % d
    IN  IF 2 * r < d THEN q
        ELSE IF 2 * r > d THEN q + 1
        ELSE IF q % 2 = 0 THEN q ELSE q + 1

Rint(n, d) == IF d > 0 THEN RintPos(n, d) ELSE RintPos(-n, -d)

\* the spacing of float32 at magnitude m (24 bits of mantissa)
RECURSIVE Float32Ulp(_)
Float32Ulp(m) == IF m < 2^24 THEN 1 ELSE 2 * Float32Ulp(m \div 2)

\* x.astype(np.float32) of an integer x
AsFloat32(x) ==
    LET u == Float32Ulp(Abs(x))
        m == RintPos(Abs(x), u) * u
    IN  IF x < 0 THEN -m ELSE m

_pack_unpack(unpacked_value, scale_factor, add_offset) ==
    LET packed_value == Rint(unpacked_value - add_offset, scale_factor)
    IN  AsFloat32(packed_value * scale_factor + add_offset)

(***************************************************************************)
(* _create_var and _add_attribute.                                         *)
(***************************************************************************)
\* {key: value for key, value in attributes.items() if key in _NC4_OPTIONS}
Nc4Options(attributes) ==
    [key \in DOMAIN attributes \cap _NC4_OPTIONS |-> attributes[key]]

_create_var(g, varname, datatype, dimensions, attributes) ==
    createVariable(g, varname, datatype,
                   IF dimensions = None THEN <<>> ELSE dimensions.v,
                   Nc4Options(attributes))

\* line 246: np.ma.array(attribute_value, dtype=tmp_dtype) raises ValueError
\* for an array of texts and a numeric tmp_dtype
CanCoerce(attribute, attribute_value, dtype) ==
    LET tmp_dtype == IF attribute \in _PACK_ATTRS THEN _AttrUnpackDtype
                     ELSE dtype
    IN  ~(/\ tmp_dtype \notin _STR_TYPES
          /\ IsArray(attribute_value)
          /\ attribute_value.dtype = _STR_TYPE)

\* a slip: the packed-attribute keys cast to the variable's dtype
Coerce_VarDtype(attribute, attribute_value, dtype) ==
    IF dtype \notin _STR_TYPES /\ (IsScalar(attribute_value)
                                    \/ IsArray(attribute_value))
    THEN [attribute_value EXCEPT !.dtype = dtype]
    ELSE attribute_value

\* the value _add_attribute stores: cast to tmp_dtype unless tmp_dtype is a
\* string type (the arrays of the generation runs hold numbers)
Coerce(attribute, attribute_value, dtype) ==
    LET tmp_dtype == IF attribute \in _PACK_ATTRS THEN _AttrUnpackDtype
                     ELSE dtype
    IN  IF tmp_dtype \notin _STR_TYPES
        THEN IF IsScalar(attribute_value)
             THEN [attribute_value EXCEPT !.dtype = tmp_dtype]
             ELSE IF IsArray(attribute_value)
             THEN [attribute_value EXCEPT !.dtype = tmp_dtype]
             ELSE attribute_value
        ELSE attribute_value

_add_attribute(g, varname, attribute, attribute_value, dtype) ==
    SetVarAttr(g, varname, attribute, Coerce(attribute, attribute_value, dtype))

(***************************************************************************)
(* _add_to_group: one dimension of the dimension loop.                     *)
(***************************************************************************)
\* what a step of the build leaves: the group, the exception raised (or
\* NoError), the createDimension calls made and the warnings emitted
Outcome(g, e, calls, w) == [g |-> g, err |-> e, calls |-> calls, warns |-> w]

\* a slip in the order of the tests: `dat` looked at before `size`
ResolveSize_DatFirst(spec, dat) ==
    IF "dat" \in DOMAIN spec /\ spec.dat \in DOMAIN dat
       /\ IsArray(dat[spec.dat])
    THEN Scalar(ArraySize(dat[spec.dat]))
    ELSE IF "dat" \in DOMAIN spec /\ spec.dat \in DOMAIN dat
            /\ IsScalar(dat[spec.dat])
    THEN dat[spec.dat]
    ELSE IF "size" \in DOMAIN spec THEN spec.size
    ELSE None

\* lines 258-271: the size given to createDimension
ResolveSize(spec, dat) ==
    IF "size" \in DOMAIN spec THEN spec.size
    ELSE IF "dat" \in DOMAIN spec /\ IsArray(dat[spec.dat])
    THEN Scalar(ArraySize(dat[spec.dat]))
    ELSE IF "dat" \in DOMAIN spec /\ IsScalar(dat[spec.dat])
    THEN dat[spec.dat]
    ELSE None

\* lines 285-288 and 328-343: attach the keys of spec that are attributes
RECURSIVE AddAttributes(_, _, _, _, _)
AddAttributes(g, varname, values, keys, dtype) ==
    IF keys = {} THEN g
    ELSE LET ncattr == CHOOSE a \in keys : TRUE
         IN  AddAttributes(
                 _add_attribute(g, varname, ncattr, values[ncattr], dtype),
                 varname, values, keys \ {ncattr}, dtype)

\* the keys of a specification that become attributes
AttributeKeys(spec) == DOMAIN spec \ _NOT_ATTRS

\* lines 256-290 for the dimension dimname with specification spec
DimensionStep(g, dat, dimname, spec) ==
    LET ncattrs == DOMAIN spec
    IN
    IF "size" \notin ncattrs /\ "dat" \in ncattrs /\ spec.dat \notin DOMAIN dat
    THEN Outcome(g, Error("KeyError", 261, spec.dat), <<>>, {})
    ELSE IF DimNameInUse(g, dimname)
    THEN Outcome(g, Error("RuntimeError", 273, dimname), <<>>, {})
    ELSE
    LET size == ResolveSize(spec, dat)
        g1 == createDimension(g, dimname, size)
        calls == <<[name |-> dimname, size |-> size, line |-> 273]>>
        var_create == IF "var" \in ncattrs THEN spec.var ELSE TRUE
    IN
    IF ~var_create THEN Outcome(g1, NoError, calls, {})
    ELSE IF "dtype" \notin ncattrs
    THEN Outcome(g1, Error("KeyError", 279, "dtype"), calls, {})
    ELSE IF ~CanCreateVariable(g1, dimname, <<dimname>>)
    THEN Outcome(g1, Error("RuntimeError", 280, dimname), calls, {})
    ELSE
    LET dtype == spec.dtype
        g2 == _create_var(g1, dimname, dtype, Tuple(<<dimname>>), spec)
        g3 == AddAttributes(g2, dimname, spec, AttributeKeys(spec), dtype)
    IN
    IF "dat" \notin ncattrs THEN Outcome(g3, NoError, calls, {})
    ELSE IF spec.dat \notin DOMAIN dat
    THEN Outcome(g3, Error("KeyError", 290, spec.dat), calls, {})
    ELSE IF ~CanWriteAll(g3, dimname, dat[spec.dat])
    THEN Outcome(g3, Error("ValueError", 290, dimname), calls, {})
    ELSE Outcome(WriteAll(g3, dimname, dat[spec.dat]), NoError, calls, {})

(***************************************************************************)
(* _add_to_group: one variable of the variable loop.                       *)
(***************************************************************************)
\* the keys of an ordered mapping kept as a sequence of [name, spec]
NamesOf(mapping) == {mapping[i].name : i \in 1..Len(mapping)}

\* lines 295-300: the effective dtype
ResolveDtype(spec, fmt) ==
    IF spec.dtype = "str"
    THEN IF fmt # "NETCDF4" THEN _CHAR_TYPE ELSE _STR_TYPE
    ELSE spec.dtype

\* len(v) is defined: a text or an array of rank >= 1
HasLen(v) == v.k = "text" \/ (IsArray(v) /\ v.shape # <<>>)
PyLen(v) == IF v.k = "text" THEN Len(v.s) ELSE v.shape[1]

\* line 316: "strdim%02d" % size
StrDimName(size) ==
    IF size < 10 THEN "strdim0" \o ToString(size)
    ELSE "strdim" \o ToString(size)

\* line 317: the private dimension is created unless a VARIABLE of the
\* configuration has its name
MustCreateStrDim(dimname, nc_vars) == dimname \notin NamesOf(nc_vars)

\* a slip in the assertion: any() for all()
AllDeclared_Any(dimensions, nc_dims) ==
    \E i \in 1..Len(dimensions) : dimensions[i] \in NamesOf(nc_dims)

\* line 311: all(dimname in nc_dims for dimname in dimensions)
AllDeclared(dimensions, nc_dims) ==
    \A i \in 1..Len(dimensions) : dimensions[i] \in NamesOf(nc_dims)

\* lines 308-321: the dimensions of the variable
\* [err, g, dimensions, calls]
ResolveDimensions(g, dat, nc_vars, nc_dims, varname, spec, dtype) ==
    IF "dim" \in DOMAIN spec
    THEN IF AllDeclared(spec.dim, nc_dims)
         THEN [err |-> NoError, g |-> g, dimensions |-> Tuple(spec.dim),
               calls |-> <<>>]
         ELSE [err |-> Error("AssertionError", 311, varname), g |-> g,
               dimensions |-> None, calls |-> <<>>]
    ELSE IF dtype = _CHAR_TYPE
    THEN IF varname \notin DOMAIN dat
         THEN [err |-> Error("KeyError", 315, varname), g |-> g,
               dimensions |-> None, calls |-> <<>>]
         ELSE IF ~HasLen(dat[varname])
         THEN [err |-> Error("TypeError", 315, varname), g |-> g,
               dimensions |-> None, calls |-> <<>>]
         ELSE
         LET size == PyLen(dat[varname])
             dimname == StrDimName(size)
         IN  IF ~MustCreateStrDim(dimname, nc_vars)
             THEN [err |-> NoError, g |-> g, dimensions |-> Tuple(<<dimname>>),
                   calls |-> <<>>]
             ELSE IF DimNameInUse(g, dimname)
             THEN [err |-> Error("RuntimeError", 318, dimname), g |-> g,
                   dimensions |-> None, calls |-> <<>>]
             ELSE [err |-> NoError,
                   g |-> createDimension(g, dimname, Scalar(size)),
                   dimensions |-> Tuple(<<dimname>>),
                   calls |-> <<[name |-> dimname, size |-> Scalar(size),
                               line |-> 318]>>]
    ELSE [err |-> NoError, g |-> g, dimensions |-> None, calls |-> <<>>]

\* _pack_unpack of an attribute value (a scalar or an array)
PackValue(v, scale_factor, add_offset) ==
    IF IsScalar(v)
    THEN [v EXCEPT !.n = _pack_unpack(@, scale_factor.n, add_offset.n),
                   !.dtype = _AttrUnpackDtype]
    ELSE [v EXCEPT !.vals = [i \in DOMAIN @ |->
                       _pack_unpack(@[i], scale_factor.n, add_offset.n)],
                   !.dtype = _AttrUnpackDtype]

\* a slip: the transform left out, the configured value handed on as it is
AttrValue_Raw(spec, ncattr) == spec[ncattr]

\* lines 331-342: the value of attribute ncattr handed to _add_attribute
AttrValue(spec, ncattr) ==
    IF ncattr = "actual_range" /\ "scale_factor" \in DOMAIN spec
                               /\ "add_offset" \in DOMAIN spec
    THEN PackValue(spec[ncattr], spec.scale_factor, spec.add_offset)
    ELSE spec[ncattr]

\* lines 336-338: the warning of a variable's attribute loop
AttrWarnings(varname, spec) ==
    IF "actual_range" \in AttributeKeys(spec)
       /\ ~({"scale_factor", "add_offset"} \subseteq DOMAIN spec)
    THEN {[about |-> "scale_factor and add_offset", name |-> varname]}
    ELSE {}

\* lines 347-350: the text written character by character is accepted
CanWriteChars(g, varname, v) ==
    /\ v.k = "text"
    /\ \A k \in 0..(Len(v.s) - 1) : CanWriteIndex(g, varname, k)

RECURSIVE WriteChars(_, _, _, _)
WriteChars(g, varname, v, count) ==
    IF count >= Len(v.s) THEN [g EXCEPT !.vars[varname].dat = v]
    ELSE WriteChars(WriteIndex(g, varname, count, v), varname, v, count + 1)

\* lines 345-364: the payload of the variable
\* [err, g]
WritePayload(g, dat, varname, spec, dtype) ==
    IF varname \notin DOMAIN dat THEN [err |-> NoError, g |-> g]
    ELSE
    LET data_entry == dat[varname] IN
    IF dtype = _CHAR_TYPE
    THEN IF ~HasLen(data_entry)
         THEN [err |-> Error("TypeError", 348, varname), g |-> g]
         ELSE IF ~CanWriteChars(g, varname, data_entry)
         THEN [err |-> Error("IndexError", 350, varname), g |-> g]
         ELSE [err |-> NoError, g |-> WriteChars(g, varname, data_entry, 0)]
    ELSE IF "dim" \in DOMAIN spec
    THEN IF dtype = _STR_TYPE /\ ~IsArray(data_entry)
         THEN [err |-> Error("AttributeError", 356, varname), g |-> g]
         ELSE IF (dtype # _STR_TYPE /\ data_entry.k = "text")
                 \/ ~CanWriteAll(g, varname, data_entry)
         THEN [err |-> Error("ValueError", 362, varname), g |-> g]
         ELSE [err |-> NoError, g |-> WriteAll(g, varname, data_entry)]
    ELSE IF ~CanWriteIndex(g, varname, 0)
            \/ (IsArray(data_entry) /\ ArraySize(data_entry) # 1)
            \/ (dtype # _STR_TYPE /\ data_entry.k = "text")
    THEN [err |-> Error("ValueError", 364, varname), g |-> g]
    ELSE [err |-> NoError, g |-> WriteIndex(g, varname, 0, data_entry)]

\* lines 293-364 for the variable varname with specification spec
VariableStep(g, dat, nc_vars, nc_dims, varname, spec, fmt) ==
    IF "dtype" \notin DOMAIN spec
    THEN Outcome(g, Error("KeyError", 295, "dtype"), <<>>, {})
    ELSE
    LET dtype == ResolveDtype(spec, fmt)
        rd == ResolveDimensions(g, dat, nc_vars, nc_dims, varname, spec, dtype)
    IN
    IF rd.err # NoError THEN Outcome(rd.g, rd.err, rd.calls, {})
    ELSE IF ~CanCreateVariable(rd.g, varname,
                IF rd.dimensions = None THEN <<>> ELSE rd.dimensions.v)
    THEN Outcome(rd.g, Error("RuntimeError", 322, varname), rd.calls, {})
    ELSE
    LET g1 == _create_var(rd.g, varname, dtype, rd.dimensions, spec)
        values == [a \in AttributeKeys(spec) |-> AttrValue(spec, a)]
        g2 == AddAttributes(g1, varname, values, AttributeKeys(spec), dtype)
        w == AttrWarnings(varname, spec)
        wp == WritePayload(g2, dat, varname, spec, dtype)
    IN  Outcome(wp.g, wp.err, rd.calls, w)

(***************************************************************************)
(* ncgen: the generation run, one action per step.                         *)
(***************************************************************************)
\* the configuration of the group being built, as ordered mappings
nc_dims == gconfig.dimensions
nc_vars == gconfig.variables

\* an exception inside the with block: the dataset is closed on the way out
Raise(e) ==
    /\ err' = e
    /\ pc' = "failed"
    /\ handle' = "closed"

\* a slip: the target is removed whatever clobber says
CheckExists_AlwaysRemove ==
    /\ pc = "start"
    /\ file' = "absent"
    /\ pc' = "format"
    /\ UNCHANGED <<existed, clobber, nc_format, nc_config, return_instance,
                   data, err, nc_config_dict, nc, handle, group, gdata,
                   gconfig, gi, di, vi, warns, dimcalls, result, appends, pk>>

\* lines 409-414
CheckExists ==
    /\ pc = "start"
    /\ IF file # "absent"
       THEN IF clobber
            THEN /\ file' = "absent"
                 /\ pc' = "format"
                 /\ err' = err
            ELSE /\ err' = Error("OSError", 414, "exists")
                 /\ pc' = "failed"
                 /\ file' = file
       ELSE /\ pc' = "format"
            /\ UNCHANGED <<file, err>>
    /\ UNCHANGED <<existed, clobber, nc_format, nc_config, return_instance, data,
                   nc_config_dict, nc, handle, group, gdata, gconfig, gi, di,
                   vi, warns, dimcalls, result, appends, pk>>

\* lines 415-417
CheckFormat ==
    /\ pc = "format"
    /\ IF nc_format \notin _NC_FMT
       THEN /\ err' = Error("ValueError", 417, nc_format)
            /\ pc' = "failed"
       ELSE /\ pc' = "config"
            /\ err' = err
    /\ UNCHANGED <<file, existed, clobber, nc_format, nc_config, return_instance, data,
                   nc_config_dict, nc, handle, group, gdata, gconfig, gi, di,
                   vi, warns, dimcalls, result, appends, pk>>

\* lines 418-430
LoadConfig ==
    /\ pc = "config"
    /\ IF nc_config.src \in {"dict", "json", "toml"}
       THEN /\ nc_config_dict' = nc_config.dict
            /\ pc' = "open"
            /\ err' = err
       ELSE /\ err' = Error("OSError", 430, nc_config.src)
            /\ pc' = "failed"
            /\ nc_config_dict' = nc_config_dict
    /\ UNCHANGED <<file, existed, clobber, nc_format, nc_config, return_instance, data,
                   nc, handle, group, gdata, gconfig, gi, di, vi, warns,
                   dimcalls, result, appends, pk>>

\* line 431: netCDF4.Dataset(filename, mode="w", clobber=clobber, ...)
OpenDataset ==
    /\ pc = "open"
    /\ IF file # "absent" /\ ~clobber
       THEN /\ err' = Error("OSError", 431, "exists")
            /\ pc' = "failed"
            /\ UNCHANGED <<file, nc, handle>>
       ELSE /\ file' = "dataset"
            /\ nc' = (Root :> EmptyGroup)
            /\ handle' = "w"
            /\ pc' = "globals"
            /\ err' = err
    /\ UNCHANGED <<existed, clobber, nc_format, nc_config, return_instance, data,
                   nc_config_dict, group, gdata, gconfig, gi, di, vi, warns,
                   dimcalls, result, appends, pk>>

\* utcnow() of line 442
Clock == {"T1", "T2"}

\* a slip: date_created stamped whether or not the configuration gives it
StampedAttrs_Fresh(nc_attrs, dat, now) ==
    LET date_created == Text(<<now, "Z">>)
        a2 == Put(nc_attrs, "date_created", date_created)
        a3 == IF "date_modified" \in DOMAIN a2 THEN a2
              ELSE Put(a2, "date_modified", date_created)
        history == Text(<<"Created ">> \o date_created.s \o
                        (IF "history" \in DOMAIN nc_attrs
                         THEN <<" ">> \o nc_attrs.history.s ELSE <<>>))
        a4 == Put(a3, "history", history)
    IN  IF "global_attributes" \in DOMAIN dat
        THEN dat.global_attributes @@ a4
        ELSE a4

\* lines 434-438: the warnings for the global attributes
GlobalWarnings(nc_attrs) ==
    {[about |-> "not standard", name |-> a] :
        a \in DOMAIN nc_attrs \ (_STANDARD_GLOBAL_ATTR \cup _ACDD_GLOBAL_ATTR)}

\* lines 433-453: the attributes of the dataset after the stamping
StampedAttrs(nc_attrs, dat, now) ==
    LET a1 == nc_attrs
        date_created == IF "date_created" \in DOMAIN a1 THEN a1.date_created
                        ELSE Text(<<now, "Z">>)
        a2 == Put(a1, "date_created", date_created)
        a3 == IF "date_modified" \in DOMAIN a2 THEN a2
              ELSE Put(a2, "date_modified", date_created)
        history == Text(<<"Created ">> \o date_created.s \o
                        (IF "history" \in DOMAIN nc_attrs
                         THEN <<" ">> \o nc_attrs.history.s ELSE <<>>))
        a4 == Put(a3, "history", history)
    IN  IF "global_attributes" \in DOMAIN dat
        THEN dat.global_attributes @@ a4
        ELSE a4

StampGlobals ==
    /\ pc = "globals"
    /\ IF "global_attributes" \notin DOMAIN nc_config_dict
       THEN /\ Raise(Error("KeyError", 433, "global_attributes"))
            /\ UNCHANGED <<nc, warns>>
       ELSE \E now \in Clock :
            /\ nc' = [nc EXCEPT ![Root].attrs =
                         StampedAttrs(nc_config_dict.global_attributes, data,
                                      now)]
            /\ warns' = warns \cup
                          GlobalWarnings(nc_config_dict.global_attributes)
            /\ pc' = "dispatch"
            /\ UNCHANGED <<err, handle>>
    /\ UNCHANGED <<file, existed, clobber, nc_format, nc_config, return_instance, data,
                   nc_config_dict, group, gdata, gconfig, gi, di, vi,
                   dimcalls, result, appends, pk>>

\* lines 455-458: create the next group of "groups" and enter _add_to_group
EnterGroup ==
    /\ pc = "dispatch"
    /\ "groups" \in DOMAIN nc_config_dict
    /\ gi <= Len(nc_config_dict.groups)
    /\ LET groupname == nc_config_dict.groups[gi].name IN
       /\ nc' = IF <<groupname>> \in DOMAIN nc THEN nc
                ELSE Put(nc, <<groupname>>, EmptyGroup)
       /\ IF "groups" \notin DOMAIN data
             \/ groupname \notin DOMAIN data.groups
          THEN /\ Raise(Error("KeyError", 457, groupname))
               /\ UNCHANGED <<group, gdata, gconfig>>
          ELSE /\ group' = <<groupname>>
               /\ gdata' = data.groups[groupname]
               /\ gconfig' = nc_config_dict.groups[gi].spec
               /\ pc' = "attributes"
               /\ UNCHANGED <<err, handle>>
    /\ UNCHANGED <<file, existed, clobber, nc_format, nc_config, return_instance, data,
                   nc_config_dict, gi, di, vi, warns, dimcalls, result,
                   appends, pk>>

\* line 460: enter _add_to_group for the root group
EnterRoot ==
    /\ pc = "dispatch"
    /\ "groups" \notin DOMAIN nc_config_dict
    /\ gi = 1
    /\ group' = Root
    /\ gdata' = data
    /\ gconfig' = nc_config_dict
    /\ pc' = "attributes"
    /\ UNCHANGED <<file, existed, clobber, nc_format, nc_config, return_instance, data,
                   err, nc_config_dict, nc, handle, gi, di, vi, warns,
                   dimcalls, result, appends, pk>>

\* lines 250-255: the group level attributes, then nc_dims
AddGroupAttributes ==
    /\ pc = "attributes"
    /\ nc' = IF "attributes" \in DOMAIN gconfig
             THEN [nc EXCEPT ![group].attrs = gconfig.attributes @@ @]
             ELSE nc
    /\ IF "dimensions" \notin DOMAIN gconfig
       THEN /\ Raise(Error("KeyError", 255, "dimensions"))
            /\ di' = di
       ELSE /\ pc' = "dimensions"
            /\ di' = 1
            /\ UNCHANGED <<err, handle>>
    /\ UNCHANGED <<file, existed, clobber, nc_format, nc_config, return_instance, data,
                   nc_config_dict, group, gdata, gconfig, gi, vi, warns,
                   dimcalls, result, appends, pk>>

\* lines 256-290: one iteration of the dimension loop
AddDimension ==
    /\ pc = "dimensions"
    /\ di <= Len(nc_dims)
    /\ LET out == DimensionStep(nc[group], gdata, nc_dims[di].name,
                                nc_dims[di].spec)
       IN  /\ nc' = [nc EXCEPT ![group] = out.g]
           /\ dimcalls' = dimcalls \o
                  [i \in 1..Len(out.calls) |->
                      [group |-> group, name |-> out.calls[i].name,
                       size |-> out.calls[i].size,
                       line |-> out.calls[i].line]]
           /\ IF out.err # NoError
              THEN Raise(out.err) /\ di' = di
              ELSE di' = di + 1 /\ UNCHANGED <<pc, err, handle>>
    /\ UNCHANGED <<file, existed, clobber, nc_format, nc_config, return_instance, data,
                   nc_config_dict, group, gdata, gconfig, gi, vi, warns,
                   result, appends, pk>>

\* line 292: nc_vars, after the last dimension
BeginVariables ==
    /\ pc = "dimensions"
    /\ di > Len(nc_dims)
    /\ IF "variables" \notin DOMAIN gconfig
       THEN /\ Raise(Error("KeyError", 292, "variables"))
            /\ vi' = vi
       ELSE /\ pc' = "variables"
            /\ vi' = 1
            /\ UNCHANGED <<err, handle>>
    /\ UNCHANGED <<file, existed, clobber, nc_format, nc_config, return_instance, data,
                   nc_config_dict, nc, group, gdata, gconfig, gi, di, warns,
                   dimcalls, result, appends, pk>>

\* lines 293-364: one iteration of the variable loop
AddVariable ==
    /\ pc = "variables"
    /\ vi <= Len(nc_vars)
    /\ LET out == VariableStep(nc[group], gdata, nc_vars, nc_dims,
                               nc_vars[vi].name, nc_vars[vi].spec, nc_format)
       IN  /\ nc' = [nc EXCEPT ![group] = out.g]
           /\ dimcalls' = dimcalls \o
                  [i \in 1..Len(out.calls) |->
                      [group |-> group, name |-> out.calls[i].name,
                       size |-> out.calls[i].size,
                       line |-> out.calls[i].line]]
           /\ warns' = warns \cup out.warns
           /\ IF out.err # NoError
              THEN Raise(out.err) /\ vi' = vi
              ELSE vi' = vi + 1 /\ UNCHANGED <<pc, err, handle>>
    /\ UNCHANGED <<file, existed, clobber, nc_format, nc_config, return_instance, data,
                   nc_config_dict, group, gdata, gconfig, gi, di, result,
                   appends, pk>>

\* _add_to_group returns after the last variable
EndGroup ==
    /\ pc = "variables"
    /\ vi > Len(nc_vars)
    /\ pc' = "dispatch"
    /\ gi' = gi + 1
    /\ UNCHANGED <<file, existed, clobber, nc_format, nc_config, return_instance, data,
                   err, nc_config_dict, nc, handle, group, gdata, gconfig, di,
                   vi, warns, dimcalls, result, appends, pk>>

\* a slip: the loop over "groups" left after its first group
GroupCalls_One ==
    IF "groups" \in DOMAIN nc_config_dict /\ Len(nc_config_dict.groups) = 0
    THEN 0 ELSE 1

\* the number of _add_to_group calls lines 454-460 make
GroupCalls ==
    IF "groups" \in DOMAIN nc_config_dict THEN Len(nc_config_dict.groups)
    ELSE 1

\* the end of the with block of line 431: the dataset is closed
CloseDataset ==
    /\ pc = "dispatch"
    /\ gi > GroupCalls
    /\ handle' = "closed"
    /\ pc' = "return"
    /\ UNCHANGED <<file, existed, clobber, nc_format, nc_config, return_instance, data,
                   err, nc_config_dict, nc, group, gdata, gconfig, gi, di, vi,
                   warns, dimcalls, result, appends, pk>>

\* lines 461-463
Return ==
    /\ pc = "return"
    /\ IF return_instance
       THEN result' = "handle" /\ handle' = "a"
       ELSE result' = "None" /\ handle' = handle
    /\ pc' = "done"
    /\ UNCHANGED <<file, existed, clobber, nc_format, nc_config, return_instance, data,
                   err, nc_config_dict, nc, group, gdata, gconfig, gi, di, vi,
                   warns, dimcalls, appends, pk>>

(***************************************************************************)
(* The caller's writes through the returned handle (test_ncgen.py, second  *)
(* example): nc_fid.variables[name][count] = value, then nc_fid.close().   *)
(***************************************************************************)
HandleWrite ==
    /\ pc = "done"
    /\ handle = "a"
    /\ Len(appends) < MaxAppend
    /\ \E g \in DOMAIN nc : \E v \in DOMAIN nc[g].vars : \E k \in 0..MaxAppend :
          /\ nc[g].vars[v].dimensions # <<>>
          /\ CanWriteIndex(nc[g], v, k)
          /\ nc' = [nc EXCEPT ![g] = WriteIndex(@, v, k, Scalar(k))]
          /\ appends' = Append(appends, [group |-> g, var |-> v, k |-> k])
    /\ UNCHANGED <<file, existed, clobber, nc_format, nc_config, return_instance, data,
                   pc, err, nc_config_dict, handle, group, gdata, gconfig, gi,
                   di, vi, warns, dimcalls, result, pk>>

CloseHandle ==
    /\ pc = "done"
    /\ handle = "a"
    /\ handle' = "closed"
    /\ UNCHANGED <<file, existed, clobber, nc_format, nc_config, return_instance, data,
                   pc, err, nc_config_dict, nc, group, gdata, gconfig, gi, di,
                   vi, warns, dimcalls, result, appends, pk>>

(***************************************************************************)
(* The inputs of the runs: configurations and data mappings.               *)
(***************************************************************************)
Entry(name, spec) == [name |-> name, spec |-> spec]

Zeros(n) == [i \in 1..n |-> 0]
DataArray(shape) == Array(shape, Zeros(Product(shape)))

Sizes == 0..MaxSize

\* dimension specifications
DimSized(n) == [size |-> Scalar(n), dtype |-> "i4", units |-> Text(<<"m">>)]
DimSizedDat(n) == [size |-> Scalar(n), dat |-> "xs", dtype |-> "i4"]
DimDat == [dat |-> "xs", dtype |-> "f4", zlib |-> Bool(TRUE),
           long_name |-> Text(<<"x">>)]
DimUnlimited == [dtype |-> "i4", units |-> Text(<<"s">>)]
DimNoVar == [var |-> FALSE]
DimDatNoVar == [var |-> FALSE, dat |-> "xs"]

DimSpecs == {DimSized(n) : n \in Sizes}
            \cup {DimSizedDat(1), DimDat, DimUnlimited, DimNoVar, DimDatNoVar}

DimConfigs ==
    {<<>>}
    \cup {<<Entry("x", d)>> : d \in DimSpecs}
    \cup {<<Entry("x", dx), Entry("t", dt)>> :
             dx \in {DimSized(MaxSize), DimDat},
             dt \in {DimSized(1), DimUnlimited}}
    \cup {<<Entry("t", DimUnlimited), Entry("x", DimSized(MaxSize))>>}

\* variable specifications
VarX == [dtype |-> "f4", dim |-> <<"x">>, units |-> Text(<<"K">>)]
VarTX == [dtype |-> "i2", dim |-> <<"t", "x">>, zlib |-> Bool(TRUE),
          fill_value |-> Scalar(0), long_name |-> Text(<<"a">>)]
VarXT == [dtype |-> "f4", dim |-> <<"x", "t">>]
VarXQ == [dtype |-> "f4", dim |-> <<"x", "q">>]
VarStr == [dtype |-> "str", long_name |-> Text(<<"n">>)]
VarStrX == [dtype |-> "str", dim |-> <<"x">>]
VarScalar == [dtype |-> "f4", units |-> Text(<<"K">>)]

VarSpecs == {VarX, VarTX, VarXT, VarXQ, VarStr, VarStrX, VarScalar}

VarConfigs ==
    {<<>>}
    \cup {<<Entry("a", v)>> : v \in VarSpecs}
    \cup {<<Entry("a", va), Entry("b", vb)>> :
             va \in {VarX, VarStr, VarTX},
             vb \in {VarStr, VarXT, VarScalar, VarXQ}}
    \cup {<<Entry("strdim02", VarScalar), Entry("b", VarStr)>>,
          <<Entry("x", VarScalar)>>}

\* data mappings: "xs" sizes a dimension, "a" and "b" are payloads
XsValues == {Scalar(n) : n \in Sizes} \cup {DataArray(<<n>>) : n \in Sizes}
            \cup {Text(<<"A">>)}
AValues == {DataArray(<<MaxSize>>), DataArray(<<1, MaxSize>>),
            Text(<<"C", "D">>)}
BValues == {Text(<<"A", "B">>), Text(<<"A", "B", "C">>), Scalar(1)}

\* the mappings with any of the keys, each over its values
Optional(key, values) == {<<>>} \cup {key :> v : v \in values}

NoGlobals == <<>>

RootConfig(ga, dims, vs) ==
    [global_attributes |-> ga, dimensions |-> dims, variables |-> vs]

Input(exists, clob, fmt, src, cfg, ret, dat) ==
    [file |-> IF exists THEN "original" ELSE "absent", clobber |-> clob,
     nc_format |-> fmt, nc_config |-> [src |-> src, dict |-> cfg],
     return_instance |-> ret, data |-> dat]

BasicConfig ==
    RootConfig([title |-> Text(<<"t">>)],
               <<Entry("x", DimSized(MaxSize)), Entry("t", DimUnlimited)>>,
               <<Entry("a", VarTX)>>)
BasicData == [a |-> DataArray(<<1, MaxSize>>)]

\* every combination of the preconditions, over one configuration
PreconditionInputs ==
    {Input(exists, clob, fmt, src, BasicConfig, ret, BasicData) :
        exists \in BOOLEAN, clob \in BOOLEAN,
        fmt \in {"NETCDF4", "NETCDF3_CLASSIC", "NETCDF5"},
        src \in {"dict", "json", "toml", "yaml"}, ret \in BOOLEAN}

BuildGlobals == [date_created |-> Text(<<"D0">>)]

\* every dimension configuration, over the data entries that size them
DimensionInputs ==
    {Input(FALSE, FALSE, "NETCDF4", "dict",
           RootConfig(BuildGlobals, dims, vs), FALSE, xs @@ a) :
        dims \in DimConfigs, vs \in {<<>>, <<Entry("a", VarX)>>},
        xs \in Optional("xs", XsValues),
        a \in Optional("a", {DataArray(<<MaxSize>>)})}

\* every variable configuration, over the payloads
VariableInputs ==
    {Input(FALSE, FALSE, fmt, "dict",
           RootConfig(BuildGlobals, dims, vs), FALSE, a @@ b) :
        fmt \in {"NETCDF4", "NETCDF3_CLASSIC"},
        dims \in {<<>>, <<Entry("x", DimSized(MaxSize))>>,
                  <<Entry("x", DimUnlimited)>>,
                  <<Entry("x", DimSized(MaxSize)), Entry("t", DimUnlimited)>>},
        vs \in VarConfigs,
        a \in Optional("a", AValues), b \in Optional("b", BValues)}

BuildInputs == DimensionInputs \cup VariableInputs

\* global attributes of the configuration and of the data mapping, and
\* group level attributes of the root group
GlobalAttrs ==
    {[key \in keys |->
         IF key = "date_created" THEN Text(<<"D0">>)
         ELSE IF key = "date_modified" THEN Text(<<"M0">>)
         ELSE IF key = "history" THEN Text(<<"h0">>)
         ELSE Text(<<"v">>)] :
     keys \in SUBSET {"date_created", "date_modified", "history", "mission"}}

DataGlobalAttrs ==
    {[history |-> Text(<<"h9">>)], [date_created |-> Text(<<"D9">>)],
     [title |-> Text(<<"t9">>)]}

RootAttrs == {[history |-> Text(<<"h8">>), size |-> Scalar(1)],
              [comments |-> Text(<<"c">>)]}

GlobalInputs ==
    {Input(FALSE, FALSE, "NETCDF4", "dict",
           RootConfig(ga, <<Entry("x", DimSized(1))>>,
                      <<Entry("a", VarScalar)>>) @@ extra,
           ret, [a |-> Scalar(1)] @@ dga) :
        ga \in GlobalAttrs,
        extra \in {<<>>} \cup {[attributes |-> ra] : ra \in RootAttrs},
        dga \in {<<>>} \cup {[global_attributes |-> d] : d \in DataGlobalAttrs},
        ret \in BOOLEAN}

\* configurations with groups; a group's subtree may hold "groups" again
GroupBody == [dimensions |-> <<Entry("x", DimSized(MaxSize))>>,
              variables |-> <<Entry("a", VarX)>>]
GroupBodyAttrs ==
    [attributes |-> [title |-> Text(<<"g">>), size |-> Scalar(1),
                     zlib |-> Text(<<"z">>)],
     dimensions |-> <<Entry("t", DimUnlimited)>>,
     variables |-> <<Entry("b", VarStr)>>]
GroupNested == GroupBody @@ [groups |-> <<Entry("inner", GroupBodyAttrs)>>]
GroupNestedTwice == GroupBody @@ [groups |-> <<Entry("mid", GroupNested)>>]

GroupConfigs ==
    {<<Entry("g1", GroupBody)>>,
     <<Entry("g1", GroupBodyAttrs), Entry("g2", GroupBody)>>,
     <<Entry("g1", GroupNested)>>,
     <<Entry("g1", GroupBody), Entry("g2", GroupNestedTwice)>>}

GroupData == [a |-> DataArray(<<MaxSize>>), b |-> Text(<<"A", "B">>)]
GroupDataNested ==
    GroupData @@ [groups |-> [inner |-> GroupData,
                              mid |-> GroupData @@
                                      [groups |-> [inner |-> GroupData]]]]

GroupDataMappings ==
    {[groups |-> [g1 |-> GroupDataNested, g2 |-> GroupDataNested]],
     [groups |-> [g1 |-> GroupData]],
     [a |-> DataArray(<<MaxSize>>)]}

GroupInputs ==
    {Input(FALSE, FALSE, fmt, "dict",
           [global_attributes |-> [title |-> Text(<<"t">>)], groups |-> gs],
           ret, dat) :
        fmt \in {"NETCDF4", "NETCDF3_CLASSIC"}, gs \in GroupConfigs,
        ret \in BOOLEAN, dat \in GroupDataMappings}

\* runs that return a handle, over configurations with an unlimited
\* dimension "t" and payloads of every extent along it
VarT == [dtype |-> "f4", dim |-> <<"t">>]

HandleInputs ==
    {Input(FALSE, FALSE, "NETCDF4", "dict",
           RootConfig(NoGlobals,
                      <<Entry("t", dt), Entry("x", DimSized(MaxSize))>>, vs),
           TRUE, dat) :
        dt \in {DimUnlimited, DimNoVar},
        vs \in {<<Entry("a", VarT)>>, <<Entry("a", VarTX)>>,
                <<Entry("a", VarX)>>},
        dat \in {<<>>} \cup {[a |-> DataArray(<<n>>)] : n \in Sizes}
                \cup {[a |-> DataArray(<<n, MaxSize>>)] : n \in Sizes}}

\* variable specifications with packing attributes and fill values, over
\* both formats, with and without a payload
RangeValues == {Array(<<2>>, <<-2, 4>>), Array(<<2>>, <<1, 3>>), Scalar(4)}

FillKeys == {<<>>, [fill_value |-> Scalar(-9)], [_FillValue |-> Scalar(-9)],
             [fill_value |-> Scalar(-9), _FillValue |-> Scalar(-8)]}

PackedSpecs ==
    {[dtype |-> "i2", dim |-> <<"x">>] @@ ar @@ sf @@ ao @@ vr @@ fv :
        ar \in Optional("actual_range", RangeValues),
        sf \in Optional("scale_factor", {Scalar(2)}),
        ao \in Optional("add_offset", {Scalar(1)}),
        vr \in Optional("valid_range", {Array(<<2>>, <<-2, 4>>)}),
        fv \in FillKeys}

VarRange == [dtype |-> "i2", dim |-> <<"x">>, scale_factor |-> Scalar(2),
             add_offset |-> Scalar(1),
             actual_range |-> Array(<<2>>, <<-2, 4>>),
             valid_range |-> Array(<<2>>, <<-2, 4>>)]
VarRangeNoOffset == [dtype |-> "f8", scale_factor |-> Scalar(2),
                     actual_range |-> Array(<<2>>, <<-2, 4>>),
                     zlib |-> Bool(TRUE), units |-> Text(<<"K">>)]

AttributeInputs ==
    {Input(FALSE, FALSE, fmt, "dict",
           RootConfig(BuildGlobals, <<Entry("x", DimSized(MaxSize))>>, vs),
           FALSE, dat) :
        fmt \in {"NETCDF4", "NETCDF3_CLASSIC"},
        vs \in {<<Entry("r", v)>> : v \in PackedSpecs}
               \cup {<<Entry("r", VarRange), Entry("q", VarRangeNoOffset)>>},
        dat \in {<<>>, [r |-> DataArray(<<MaxSize>>)],
                 [r |-> DataArray(<<MaxSize>>), q |-> Scalar(1)]}}

Inputs == PreconditionInputs \cup BuildInputs \cup GlobalInputs
          \cup GroupInputs \cup HandleInputs \cup AttributeInputs

PackIdle == [stage |-> "idle"]

Init ==
    /\ \E inp \in Inputs :
          /\ file = inp.file
          /\ existed = (inp.file # "absent")
          /\ clobber = inp.clobber
          /\ nc_format = inp.nc_format
          /\ nc_config = inp.nc_config
          /\ return_instance = inp.return_instance
          /\ data = inp.data
    /\ pc = "start"
    /\ err = NoError
    /\ nc_config_dict = <<>>
    /\ nc = <<>>
    /\ handle = "closed"
    /\ group = Root
    /\ gdata = <<>>
    /\ gconfig = <<>>
    /\ gi = 1
    /\ di = 1
    /\ vi = 1
    /\ warns = {}
    /\ dimcalls = <<>>
    /\ result = "pending"
    /\ appends = <<>>
    /\ pk = PackIdle

Next ==
    \/ CheckExists
    \/ CheckFormat
    \/ LoadConfig
    \/ OpenDataset
    \/ StampGlobals
    \/ EnterGroup
    \/ EnterRoot
    \/ AddGroupAttributes
    \/ AddDimension
    \/ BeginVariables
    \/ AddVariable
    \/ EndGroup
    \/ CloseDataset
    \/ Return
    \/ HandleWrite
    \/ CloseHandle

Spec == Init /\ [][Next]_vars

(***************************************************************************)
(* Definitions the properties share.                                       *)
(***************************************************************************)
\* the specification an ordered mapping gives a name
Lookup(mapping, name) ==
    mapping[CHOOSE i \in 1..Len(mapping) : mapping[i].name = name].spec

\* the configuration and data subtrees ncgen hands _add_to_group for group g
ConfigOfGroup(g) ==
    IF g = Root THEN nc_config_dict ELSE Lookup(nc_config_dict.groups, g[1])
DataOfGroup(g) == IF g = Root THEN data ELSE data.groups[g[1]]

\* the run is inside, or has ended inside, the dimension loop of the group
InDimensionLoop ==
    \/ pc = "dimensions"
    \/ pc = "failed" /\ err.line \in 256..290

\* the run is inside, or past, the variable loop of the last group entered
InVariableLoop ==
    \/ pc \in {"variables", "dispatch", "return", "done"}
         /\ "variables" \in DOMAIN gconfig
    \/ pc = "failed" /\ err.line \in 293..364

\* the createDimension calls made for dimension name of group g
CallsFor(g, name) ==
    {i \in 1..Len(dimcalls) :
        dimcalls[i].group = g /\ dimcalls[i].name = name}

(***************************************************************************)
(* C1.  The size of a dimension.                                           *)
(***************************************************************************)
\* the size the claim gives a dimension specification
ClaimedSize(spec, dat) ==
    CASE "size" \in DOMAIN spec -> spec.size
      [] "size" \notin DOMAIN spec /\ "dat" \in DOMAIN spec
         /\ spec.dat \in DOMAIN dat /\ dat[spec.dat].k = "array"
            -> Scalar(Product(dat[spec.dat].shape))
      [] "size" \notin DOMAIN spec /\ "dat" \in DOMAIN spec
         /\ spec.dat \in DOMAIN dat /\ dat[spec.dat].k = "scalar"
            -> dat[spec.dat]
      [] OTHER -> None

\* the dimension's size is to come from a data entry that does not exist
DatMissing(spec, dat) ==
    /\ "size" \notin DOMAIN spec
    /\ "dat" \in DOMAIN spec
    /\ spec.dat \notin DOMAIN dat

\* C1 as claimed: every dimension the dimension loop has come to was created
\* with the claimed size (None when `dat` names no array or scalar entry)
\* and has that size as its length.
C1_Original ==
    InDimensionLoop =>
        \A i \in 1..Len(nc_dims) :
            (i < di \/ (i = di /\ pc = "failed")) =>
                LET name == nc_dims[i].name
                    size == ClaimedSize(nc_dims[i].spec, gdata)
                IN  /\ \E c \in CallsFor(group, name) :
                          dimcalls[c].size = size
                    /\ size # None => nc[group].dims[name].len = size.n

\* C1 (amended): every createDimension call of the dimension loop passes
\* `size` if present (even when `dat` is present too), else the element count
\* of data[dat] if that is an array, else data[dat] if that is a scalar, else
\* None; every dimension the loop has passed was created so, once.  Without
\* `size`, a `dat` that names no data entry ends the build with a KeyError
\* and the dimension is not created.  A dimension created with a positive
\* size is fixed and keeps that length; one created with None or 0 is
\* unlimited.
C1_SizeResolved ==
    /\ \A c \in 1..Len(dimcalls) :
          dimcalls[c].line = 273 =>
              LET g == dimcalls[c].group
                  spec == Lookup(ConfigOfGroup(g).dimensions, dimcalls[c].name)
              IN  /\ ~DatMissing(spec, DataOfGroup(g))
                  /\ dimcalls[c].size = ClaimedSize(spec, DataOfGroup(g))
                  /\ nc[g].dims[dimcalls[c].name].size = dimcalls[c].size
    /\ InDimensionLoop =>
          \A i \in 1..Len(nc_dims) :
              /\ i < di => Cardinality(CallsFor(group, nc_dims[i].name)) = 1
              /\ (i = di /\ pc = "failed") =>
                    /\ err.line = 261 <=> DatMissing(nc_dims[i].spec, gdata)
                    /\ err.line = 261 =>
                          /\ err.type = "KeyError"
                          /\ CallsFor(group, nc_dims[i].name) = {}
                          /\ nc_dims[i].name \notin DOMAIN nc[group].dims
    /\ \A g \in DOMAIN nc : \A d \in DOMAIN nc[g].dims :
          LET dim == nc[g].dims[d] IN
          IF dim.size # None /\ dim.size.n > 0
          THEN ~dim.unlimited /\ dim.len = dim.size.n
          ELSE dim.unlimited

\* a run that has created one dimension from the element count of an array
\* and an unlimited one, and one whose `size` differs from the element count
\* of its `dat`
C1_Witness ==
    /\ pc = "variables"
    /\ \E c \in 1..Len(dimcalls) :
          /\ dimcalls[c].line = 273
          /\ "size" \notin DOMAIN Lookup(nc_dims, dimcalls[c].name)
          /\ "dat" \in DOMAIN Lookup(nc_dims, dimcalls[c].name)
          /\ "xs" \in DOMAIN gdata
          /\ IsArray(gdata.xs)
          /\ dimcalls[c].size = Scalar(MaxSize)
    /\ \E c \in 1..Len(dimcalls) : dimcalls[c].size = None

(***************************************************************************)
(* C2.  The dimensions a variable names.                                   *)
(***************************************************************************)
\* a name of the variable's `dim` is no key of the group's `dimensions`
Undeclared(spec) ==
    \E j \in 1..Len(spec.dim) : spec.dim[j] \notin NamesOf(nc_dims)

\* C2: a variable that declares `dim` ends the build of its group with an
\* AssertionError naming it if and only if a name of its `dim` is no key of
\* the group's `dimensions`; when every name is declared and the variable is
\* created, it lies over exactly the dimensions of `dim`, in that order.
C2_DimensionsDeclared ==
    InVariableLoop =>
        \A i \in 1..Len(nc_vars) :
            "dim" \in DOMAIN nc_vars[i].spec =>
                LET name == nc_vars[i].name
                    spec == nc_vars[i].spec
                IN  /\ (i = vi /\ pc = "failed") =>
                          (err = Error("AssertionError", 311, name)
                              <=> Undeclared(spec))
                    /\ i < vi =>
                          /\ ~Undeclared(spec)
                          /\ nc[group].vars[name].dimensions = spec.dim

\* the first variable lies over its declared dimensions and the second one
\* has ended the build for naming an undeclared dimension
C2_Witness ==
    /\ pc = "failed"
    /\ vi = 2
    /\ err = Error("AssertionError", 311, "b")
    /\ nc_vars[1].spec = VarTX
    /\ nc[group].vars["a"].dimensions = <<"t", "x">>

(***************************************************************************)
(* C3, C4.  The preconditions of ncgen.                                    *)
(***************************************************************************)
\* C3 as claimed: when ncgen fails for an unsupported format or an
\* unsupported configuration file extension, the target path is as it was
\* when ncgen was called.
C3_NoMutationBeforeError ==
    (pc = "failed" /\ err.line \in {417, 430}) =>
        file = IF existed THEN "original" ELSE "absent"

\* C4: when the target exists and clobber is false, ncgen raises OSError at
\* once: the format is not validated, no configuration is read, no dataset
\* is opened and the file stays as it was; an existing target is removed or
\* overwritten only when clobber is true.
C4_ExistsWithoutClobber ==
    /\ (existed /\ ~clobber) =>
          \/ pc = "start" /\ file = "original"
          \/ /\ pc = "failed"
             /\ err = Error("OSError", 414, "exists")
             /\ file = "original"
             /\ nc_config_dict = <<>>
             /\ nc = <<>>
             /\ handle = "closed"
             /\ result = "pending"
    /\ (existed /\ file # "original") => clobber

\* the existence error of a call whose format and configuration file are
\* unsupported too
C4_Witness ==
    /\ pc = "failed"
    /\ err = Error("OSError", 414, "exists")
    /\ nc_format \notin _NC_FMT
    /\ nc_config.src = "yaml"
    /\ file = "original"

(***************************************************************************)
(* C5.  The stamped global attributes.                                     *)
(***************************************************************************)
\* the text ncgen puts in history for the creation date dc
HistoryOf(dc) ==
    Text(<<"Created ">> \o dc.s \o
         (IF "history" \in DOMAIN nc_config_dict.global_attributes
          THEN <<" ">> \o nc_config_dict.global_attributes.history.s
          ELSE <<>>))

\* C5 as claimed: after a successful run the dataset carries date_created,
\* date_modified and history; a date_created or date_modified of the
\* configuration is kept, a missing date_modified equals date_created, and
\* history is "Created <date_created>" followed by the configured history.
C5_Original ==
    pc = "done" =>
        LET a == nc[Root].attrs
            cfg == nc_config_dict.global_attributes
        IN  /\ {"date_created", "date_modified", "history"} \subseteq DOMAIN a
            /\ "date_created" \in DOMAIN cfg
                  => a.date_created = cfg.date_created
            /\ "date_modified" \in DOMAIN cfg
                  => a.date_modified = cfg.date_modified
            /\ "date_modified" \notin DOMAIN cfg
                  => a.date_modified = a.date_created
            /\ a.history = HistoryOf(a.date_created)

\* the value a later assignment leaves in the global attribute key: the
\* root group's `attributes` (a configuration without groups), else the
\* data mapping's global_attributes, else the stamped value
FinalAttr(key, stamped) ==
    IF "groups" \notin DOMAIN nc_config_dict
       /\ "attributes" \in DOMAIN nc_config_dict
       /\ key \in DOMAIN nc_config_dict.attributes
    THEN nc_config_dict.attributes[key]
    ELSE IF "global_attributes" \in DOMAIN data
            /\ key \in DOMAIN data.global_attributes
    THEN data.global_attributes[key]
    ELSE stamped

\* C5 (amended): after a successful run the dataset carries date_created,
\* date_modified and history.  ncgen stamps date_created with the
\* configured value or else the time of the run, date_modified with the
\* configured value or else the stamped date_created, history with
\* "Created <stamped date_created>" followed by the configured history; a
\* stamped value is then replaced by the value data["global_attributes"]
\* or the root group's `attributes` give the same name.
C5_Stamped ==
    pc = "done" =>
        LET a == nc[Root].attrs
            cfg == nc_config_dict.global_attributes
        IN  /\ {"date_created", "date_modified", "history"} \subseteq DOMAIN a
            /\ \E dc \in (IF "date_created" \in DOMAIN cfg
                          THEN {cfg.date_created}
                          ELSE {Text(<<now, "Z">>) : now \in Clock}) :
                  /\ a.date_created = FinalAttr("date_created", dc)
                  /\ a.date_modified =
                        FinalAttr("date_modified",
                                  IF "date_modified" \in DOMAIN cfg
                                  THEN cfg.date_modified ELSE dc)
                  /\ a.history = FinalAttr("history", HistoryOf(dc))

\* a successful run whose configuration gives date_created and history but
\* no date_modified, and whose data mapping gives global attributes
C5_Witness ==
    /\ pc = "done"
    /\ "global_attributes" \in DOMAIN data
    /\ DOMAIN nc_config_dict.global_attributes = {"date_created", "history"}
    /\ nc[Root].attrs.date_modified = Text(<<"D0">>)
    /\ nc[Root].attrs.history = Text(<<"Created ", "D0", " ", "h0">>)

(***************************************************************************)
(* C6.  The returned handle and the unlimited dimensions.                  *)
(***************************************************************************)
SetMax(S) == CHOOSE m \in S : \A n \in S : n <= m

\* the groups _add_to_group was called for
BuiltGroups ==
    IF "groups" \in DOMAIN nc_config_dict THEN DOMAIN nc \ {Root} ELSE {Root}

\* the dimensions of group g declared with neither `size` nor `dat`
UndeclaredSize(g) ==
    LET dims == ConfigOfGroup(g).dimensions IN
    {dims[i].name : i \in {j \in 1..Len(dims) :
                              {"size", "dat"} \cap DOMAIN dims[j].spec = {}}}

\* the extent of what variable v holds along its axis i
HeldExtent(v, i) ==
    IF v.dat.k = "array" THEN v.dat.shape[i]
    ELSE IF v.dat.k = "text" /\ v.dtype = _CHAR_TYPE /\ i = 1
    THEN Len(v.dat.s)
    ELSE 0

\* the largest extent the variables of group g hold along dimension d
WrittenExtent(g, d) ==
    LET held(v) == {HeldExtent(nc[g].vars[v], i) :
                       i \in {j \in 1..Len(nc[g].vars[v].dimensions) :
                                 nc[g].vars[v].dimensions[j] = d}}
    IN  SetMax({0} \cup UNION {held(v) : v \in DOMAIN nc[g].vars})

\* what ncgen returns, and when
ReturnsAsAsked ==
    /\ pc = "return" => (handle = "closed" /\ result = "pending")
    /\ pc = "done" =>
          IF return_instance
          THEN result = "handle" /\ handle \in {"a", "closed"}
          ELSE result = "None" /\ handle = "closed"
    /\ handle = "a" => (pc = "done" /\ return_instance)

\* C6 as claimed: a dimension declared with neither `size` nor `dat` is
\* unlimited and has length 0 at the end of the run.
C6_Original ==
    (pc = "done" /\ appends = <<>>) =>
        \A g \in BuiltGroups : \A d \in UndeclaredSize(g) :
            nc[g].dims[d].unlimited /\ nc[g].dims[d].len = 0

\* a write through the handle at the index that is the length of the
\* variable's unlimited first dimension grows that dimension by one and
\* leaves every other dimension as it was
AppendGrowsByOne ==
    Len(appends') = Len(appends) + 1 =>
        LET w == appends'[Len(appends')]
            d == nc[w.group].vars[w.var].dimensions[1]
        IN  (nc[w.group].dims[d].unlimited /\ w.k = nc[w.group].dims[d].len)
            => /\ nc'[w.group].dims[d].len = nc[w.group].dims[d].len + 1
               /\ \A g \in DOMAIN nc : \A e \in DOMAIN nc[g].dims :
                     <<g, e>> # <<w.group, d>>
                        => nc'[g].dims[e] = nc[g].dims[e]

\* C6 (amended): ncgen returns nothing when return_instance is false and,
\* when it is true, a handle opened for writing after the run has closed the
\* dataset.  A dimension declared with neither `size` nor `dat` is
\* unlimited; at the end of the run its length is the largest extent of the
\* payloads the run wrote along it (0 when it wrote none).  Each later write
\* through the handle at index k = current length grows that dimension by
\* exactly one and leaves the other dimensions unchanged.
C6_HandleAndUnlimited ==
    /\ [](/\ ReturnsAsAsked
          /\ (pc = "done" /\ appends = <<>>) =>
                \A g \in BuiltGroups : \A d \in UndeclaredSize(g) :
                    /\ nc[g].dims[d].unlimited
                    /\ nc[g].dims[d].len = WrittenExtent(g, d))
    /\ [][AppendGrowsByOne]_vars

\* two writes through the handle, at 0 and at 1, have grown an unlimited
\* dimension that was empty at the end of the run to length 2, next to a
\* fixed dimension
C6_Witness ==
    /\ pc = "done"
    /\ handle = "a"
    /\ appends = <<[group |-> Root, var |-> "t", k |-> 0],
                   [group |-> Root, var |-> "t", k |-> 1]>>
    /\ nc[Root].dims["t"].unlimited
    /\ nc[Root].dims["t"].len = 2
    /\ nc[Root].dims["x"].len = MaxSize

(***************************************************************************)
(* C7.  The reserved keys.                                                 *)
(***************************************************************************)
\* the keys the claim reserves
ReservedKeys ==
    {"size", "dtype", "dat", "dim", "var", "zlib", "complevel", "shuffle",
     "least_significant_digit", "fill_value", "compression", "szip_coding",
     "szip_pixels_per_block", "blosc_shuffle", "fletcher32", "contiguous",
     "chunksizes", "endian", "significant_digits", "quantize_mode",
     "chunk_cache"}

\* no variable of the dataset carries an attribute with a reserved name
NoReservedVarAttr ==
    \A g \in DOMAIN nc : \A v \in DOMAIN nc[g].vars :
        DOMAIN nc[g].vars[v].attrs \cap ReservedKeys = {}

\* C7 as claimed: after a run no group and no variable carries an attribute
\* with a reserved name.
C7_Original ==
    pc \in {"done", "failed"} =>
        /\ NoReservedVarAttr
        /\ \A g \in DOMAIN nc : DOMAIN nc[g].attrs \cap ReservedKeys = {}

\* C7 (amended): no coordinate variable and no data variable ever carries
\* an attribute with a reserved name, whatever keys the dimension and
\* variable specifications hold; the keys of a group's `attributes` are set
\* on the group as they are, a reserved name included.
C7_ReservedKeys ==
    /\ NoReservedVarAttr
    /\ pc = "done" =>
          \A g \in BuiltGroups :
              "attributes" \in DOMAIN ConfigOfGroup(g) =>
                  DOMAIN ConfigOfGroup(g).attributes \subseteq DOMAIN nc[g].attrs

\* a finished run with a group attribute named `size` and, in the same
\* group, a coordinate variable and a data variable whose specifications
\* hold reserved keys next to attributes
C7_Witness ==
    /\ pc = "done"
    /\ <<"g1">> \in DOMAIN nc
    /\ "size" \in DOMAIN nc[<<"g1">>].attrs
    /\ DOMAIN nc[<<"g1">>].vars["t"].attrs = {"units"}
    /\ <<"g2">> \in DOMAIN nc
    /\ DOMAIN nc[<<"g2">>].vars["a"].attrs = {"units"}

(***************************************************************************)
(* C8.  Groups.                                                            *)
(***************************************************************************)
\* the paths of the groups a configuration names under `groups`, at any
\* depth
RECURSIVE GroupPaths(_, _)
GroupPaths(cfg, prefix) ==
    IF "groups" \notin DOMAIN cfg THEN {}
    ELSE UNION {{prefix \o <<cfg.groups[i].name>>} \cup
                GroupPaths(cfg.groups[i].spec, prefix \o <<cfg.groups[i].name>>) :
                i \in 1..Len(cfg.groups)}

\* group g of the dataset holds the dimensions and variables of cfg, and
\* the payloads dat gives its variables
BuiltFrom(g, cfg, dat) ==
    /\ NamesOf(cfg.dimensions) \subseteq DOMAIN nc[g].dims
    /\ NamesOf(cfg.variables) \subseteq DOMAIN nc[g].vars
    /\ \A v \in NamesOf(cfg.variables) \cap DOMAIN dat :
          nc[g].vars[v].dat = dat[v]
    /\ "attributes" \in DOMAIN cfg => nc[g].attrs = cfg.attributes

PrivateString(i) ==
    /\ nc_vars[i].spec.dtype = "str"
    /\ "dim" \notin DOMAIN nc_vars[i].spec
    /\ nc_format # "NETCDF4"
    /\ nc_vars[i].name \in DOMAIN gdata
    /\ gdata[nc_vars[i].name].k = "text"

\* C10 as claimed: every such variable the loop has come to is created over
\* the dimension named from the length of its text, which has that length
\* and was created exactly once, however many variables share it.
C10_SharedStringDimension ==
    InVariableLoop =>
        \A i \in 1..Len(nc_vars) :
            (PrivateString(i) /\ (i < vi \/ (i = vi /\ pc = "failed"))) =>
                LET name == nc_vars[i].name
                    size == Len(gdata[name].s)
                    dimname == StrDimName(size)
                IN  /\ dimname \in DOMAIN nc[group].dims
                    /\ nc[group].dims[dimname].len = size
                    /\ Cardinality(CallsFor(group, dimname)) = 1
                    /\ name \in DOMAIN nc[group].vars
                    /\ nc[group].vars[name].dimensions = <<dimname>>

(***************************************************************************)
(* C11.  actual_range and the pack/unpack transform.                       *)
(***************************************************************************)
\* the numbers a value holds, whatever its dtype
Numbers(v) == IF IsScalar(v) THEN <<v.n>>
              ELSE IF IsArray(v) THEN v.vals ELSE <<>>

\* variable i of the group's configuration has been created and has gone
\* through the attribute loop of lines 328-343
AttributesDone(i) ==
    /\ InVariableLoop
    /\ i \in 1..Len(nc_vars)
    /\ \/ i < vi
       \/ i = vi /\ pc = "failed" /\ err.line \in 345..364

RangeWarning(varname) ==
    [about |-> "scale_factor and add_offset", name |-> varname]

\* C11: for a variable specification with `actual_range`, the attribute
\* stored is _pack_unpack of the configured value, element by element, when
\* the specification has both `scale_factor` and `add_offset`, and then no
\* warning is given; when either is missing a warning names the variable,
\* the attribute loop raises nothing and the stored numbers are the
\* configured ones.  Every other attribute holds the configured value.
C11_ActualRangePacked ==
    InVariableLoop =>
    \A i \in 1..Len(nc_vars) :
        (AttributesDone(i) /\ "actual_range" \in DOMAIN nc_vars[i].spec) =>
            LET spec == nc_vars[i].spec
                varname == nc_vars[i].name
                stored == nc[group].vars[varname].attrs
                raw == Numbers(spec.actual_range)
                both == {"scale_factor", "add_offset"} \subseteq DOMAIN spec
            IN  /\ "actual_range" \in DOMAIN stored
                /\ stored.actual_range.k = spec.actual_range.k
                /\ both =>
                     /\ Numbers(stored.actual_range) =
                            [j \in DOMAIN raw |->
                                _pack_unpack(raw[j], spec.scale_factor.n,
                                             spec.add_offset.n)]
                     /\ RangeWarning(varname) \notin warns
                /\ ~both =>
                     /\ Numbers(stored.actual_range) = raw
                     /\ RangeWarning(varname) \in warns
                /\ \A a \in DOMAIN stored \ {"actual_range"} :
                     /\ a \in DOMAIN spec
                     /\ stored[a].k = spec[a].k
                     /\ Numbers(stored[a]) = Numbers(spec[a])

\* a finished run with two variables: "r" has both packing attributes and
\* its range is moved onto the packing grid, "q" lacks add_offset and keeps
\* its range, with a warning
C11_Witness ==
    /\ pc = "done"
    /\ InVariableLoop
    /\ Len(nc_vars) = 2
    /\ nc_vars[1].spec = VarRange
    /\ nc_vars[2].spec = VarRangeNoOffset
    /\ nc[Root].vars["r"].attrs.actual_range.vals = <<-3, 5>>
    /\ nc[Root].vars["r"].attrs.valid_range.vals = <<-2, 4>>
    /\ nc[Root].vars["q"].attrs.actual_range.vals = <<-2, 4>>
    /\ warns = {RangeWarning("q")}

(***************************************************************************)
(* C12.  Fill values and the options of createVariable.                    *)
(***************************************************************************)
FillValueKeys == {"fill_value", "_FillValue"}

\* C12 as claimed: for every variable created from a variable
\* specification, a fill value declared under `fill_value` or `_FillValue`
\* is among the options createVariable received, unchanged, and is no
\* attribute of the variable; every option createVariable received is an
\* enumerated storage-encoding option with the configured value.
C12_FillValuePassedThrough ==
    InVariableLoop =>
    \A i \in 1..Len(nc_vars) :
        AttributesDone(i) =>
            LET spec == nc_vars[i].spec
                var == nc[group].vars[nc_vars[i].name]
            IN  /\ \A key \in FillValueKeys \cap DOMAIN spec :
                     /\ \E o \in DOMAIN var.options :
                            var.options[o] = spec[key]
                     /\ key \notin DOMAIN var.attrs
                /\ \A o \in DOMAIN var.options :
                     /\ o \in _NC4_OPTIONS
                     /\ var.options[o] = spec[o]

(***************************************************************************)
(* C13.  The payload of a variable and its data entry.                     *)
(***************************************************************************)
\* the variable loop ended at variable i for want of the data entry of
\* that name
FailedForEntry(i) ==
    /\ pc = "failed"
    /\ i = vi
    /\ err.type = "KeyError"
    /\ err.about = nc_vars[i].name

\* C13 as claimed: no variable of the configuration, whatever its dtype,
\* its `dim` and the format, ends the build because the data mapping has no
\* entry of its name; a variable the loop has passed is created, and its
\* payload is written if and only if the data mapping has that entry.
C13_PayloadIffEntry ==
    (InVariableLoop /\ appends = <<>>) =>
    \A i \in 1..Len(nc_vars) :
        LET varname == nc_vars[i].name IN
        /\ i <= vi /\ varname \notin DOMAIN gdata => ~FailedForEntry(i)
        /\ i < vi =>
             /\ varname \in DOMAIN nc[group].vars
             /\ DOMAIN nc[group].vars[varname].attrs =
                    AttributeKeys(nc_vars[i].spec)
             /\ nc[group].vars[varname].dat # None
                    <=> varname \in DOMAIN gdata

(***************************************************************************)
(* C9.  _pack_unpack, applied to a pair of values (an actual_range) and    *)
(* again to its own result.                                                *)
(***************************************************************************)
\* small values, and values past the 24 bits a float32 holds exactly
PackLarge == {2^24 + 1, 2^25 + 2, -(2^25 + 2)}
PackValues == ((-MaxPack)..MaxPack) \cup PackLarge
PackScales == ((-MaxScale)..MaxScale) \ {0}
PackOffsets == (-MaxOffset)..MaxOffset

InitPack ==
    /\ \E v1 \in PackValues, v2 \in PackValues, s \in PackScales,
          o \in PackOffsets :
          pk = [stage |-> "input", unpacked_value |-> <<v1, v2>>,
                scale_factor |-> s, add_offset |-> o,
                once |-> <<>>, twice |-> <<>>]
    /\ file = "absent"
    /\ existed = FALSE
    /\ clobber = FALSE
    /\ nc_format = "NETCDF4"
    /\ nc_config = <<>>
    /\ return_instance = FALSE
    /\ data = <<>>
    /\ pc = "pack"
    /\ err = NoError
    /\ nc_config_dict = <<>>
    /\ nc = <<>>
    /\ handle = "closed"
    /\ group = Root
    /\ gdata = <<>>
    /\ gconfig = <<>>
    /\ gi = 1
    /\ di = 1
    /\ vi = 1
    /\ warns = {}
    /\ dimcalls = <<>>
    /\ result = "pending"
    /\ appends = <<>>

\* _pack_unpack of an array, element by element
PackArray(values, scale_factor, add_offset) ==
    [i \in DOMAIN values |-> _pack_unpack(values[i], scale_factor, add_offset)]

PackOnce ==
    /\ pk.stage = "input"
    /\ pk' = [pk EXCEPT !.stage = "once",
                        !.once = PackArray(pk.unpacked_value, pk.scale_factor,
                                           pk.add_offset)]
    /\ UNCHANGED <<file, existed, clobber, nc_format, nc_config,
                   return_instance, data, pc, err, nc_config_dict, nc, handle,
                   group, gdata, gconfig, gi, di, vi, warns, dimcalls, result,
                   appends>>

PackAgain ==
    /\ pk.stage = "once"
    /\ pk' = [pk EXCEPT !.stage = "twice",
                        !.twice = PackArray(pk.once, pk.scale_factor,
                                            pk.add_offset)]
    /\ UNCHANGED <<file, existed, clobber, nc_format, nc_config,
                   return_instance, data, pc, err, nc_config_dict, nc, handle,
                   group, gdata, gconfig, gi, di, vi, warns, dimcalls, result,
                   appends>>

NextPack == PackOnce \/ PackAgain

SpecPack == InitPack /\ [][NextPack]_vars

AttrNames == {"add_offset", "scale_factor", "least_significant_digit",
              "actual_range", "units", "valid_min"}
AttrValues == {Scalar(3), Bool(TRUE), Array(<<2>>, <<1, 2>>),
               Array(<<1, 2>>, <<0, 5>>), Text(<<"K">>), None,
               TextArray(<<2>>, <<"a", "b">>)}
AttrDtypes == {"i2", "f8", _AttrUnpackDtype, _CHAR_TYPE, _STR_TYPE}

\* a group with the variable "v", which has the attribute units, and "w"
AttrGroup ==
    LET g1 == createDimension(EmptyGroup, "x", Scalar(2))
        g2 == createVariable(g1, "v", "i2", <<"x">>, <<>>)
        g3 == createVariable(g2, "w", "f8", <<>>, <<>>)
    IN  SetVarAttr(SetVarAttr(g3, "v", "units", Text(<<"m">>)),
                   "w", "units", Text(<<"s">>))

InitAttr ==
    /\ \E n \in AttrNames, v \in AttrValues, d \in AttrDtypes :
          pk = [stage |-> "input", attribute |-> n, attribute_value |-> v,
                dtype |-> d]
    /\ nc = (Root :> AttrGroup)
    /\ file = "absent"
    /\ existed = FALSE
    /\ clobber = FALSE
    /\ nc_format = "NETCDF4"
    /\ nc_config = <<>>
    /\ return_instance = FALSE
    /\ data = <<>>
    /\ pc = "attr"
    /\ err = NoError
    /\ nc_config_dict = <<>>
    /\ handle = "open"
    /\ group = Root
    /\ gdata = <<>>
    /\ gconfig = <<>>
    /\ gi = 1
    /\ di = 1
    /\ vi = 1
    /\ warns = {}
    /\ dimcalls = <<>>
    /\ result = "pending"
    /\ appends = <<>>

\* lines 241-247: _add_attribute(group.variables["v"], attribute,
\* attribute_value, dtype)
AddAttribute ==
    /\ pk.stage = "input"
    /\ IF CanCoerce(pk.attribute, pk.attribute_value, pk.dtype)
       THEN /\ nc' = [nc EXCEPT ![Root] =
                         _add_attribute(@, "v", pk.attribute,
                                        pk.attribute_value, pk.dtype)]
            /\ pk' = [pk EXCEPT !.stage = "set"]
            /\ err' = err
       ELSE /\ nc' = nc
            /\ pk' = [pk EXCEPT !.stage = "raised"]
            /\ err' = Error("ValueError", 246, pk.attribute)
    /\ UNCHANGED <<file, existed, clobber, nc_format, nc_config,
                   return_instance, data, pc, nc_config_dict, handle, group,
                   gdata, gconfig, gi, di, vi, warns, dimcalls, result,
                   appends>>

NextAttr == AddAttribute

SpecAttr == InitAttr /\ [][NextAttr]_vars

PackedKeys == {"add_offset", "scale_factor", "least_significant_digit",
               "actual_range"}
StringFamily == {"S1", "U"}

\* the dtype the claim coerces attribute n of a variable of dtype d to
CoercionDtype(n, d) == IF n \in PackedKeys THEN "float32" ELSE d

\* the group with attribute n of "v" set to value, nothing else changed
OnlySet(n, value) ==
    [AttrGroup EXCEPT !.vars["v"].attrs =
        [a \in DOMAIN @ \cup {n} |-> IF a = n THEN value ELSE @[a]]]

====
